---- MODULE Spec2Model ----
(***************************************************************************)
(* SourceBinder (crates/ra_hir/src/source_binder.rs): mapping of syntax    *)
(* nodes to hir-level IDs through the chain of enclosing containers, with  *)
(* a per-session cache of the containers' child_by_source maps.            *)
(*                                                                         *)
(* The syntax trees (one source file and three macro-expansion files) are  *)
(* a fixed universe; the database is that universe minus a set `absent`    *)
(* of nodes the definition index does not know (cfg-pruned modules, items  *)
(* missing from their container's index, patterns missing from a body's    *)
(* source map, an untracked file).                                         *)
(***************************************************************************)
EXTENDS Integers, Sequences, FiniteSets, TLC

\* How many syntax nodes the database may fail to know.
MaxAbsent == 1

(***************************************************************************)
(* Option<T>                                                               *)
(***************************************************************************)
None == <<>>
Some(x) == <<x>>
IsSome(o) == o # <<>>

(***************************************************************************)
(* The syntax universe.  parent = 0: the root of its file.                 *)
(*   F1:  mod a { fn f<T>() { let x; fn g() { let y; } m!(); }             *)
(*                struct S<U> { fld }  mod /*no name*/ { const C; } }      *)
(*        enum E { V }  trait Tr { type A<X>; }  impl { fn meth() {} }     *)
(*        static ST = { let p; };  m2!();  <floating pattern>              *)
(*   M1 = expansion of m!() in f:   let z;  mod c {}  m3!();               *)
(*   M3 = expansion of m3!() in M1: <expr>                                 *)
(*   M2 = expansion of m2!():       union Un { ufld }                      *)
(***************************************************************************)
Tree ==
  << [kind |-> "SOURCE_FILE",    parent |-> 0,  file |-> "F1", name |-> None],       \* 1
     [kind |-> "Module",         parent |-> 1,  file |-> "F1", name |-> Some("a")],  \* 2
     [kind |-> "FnDef",          parent |-> 2,  file |-> "F1", name |-> Some("f")],  \* 3
     [kind |-> "TypeParam",      parent |-> 3,  file |-> "F1", name |-> Some("T")],  \* 4
     [kind |-> "BindPat",        parent |-> 3,  file |-> "F1", name |-> Some("x")],  \* 5
     [kind |-> "FnDef",          parent |-> 3,  file |-> "F1", name |-> Some("g")],  \* 6
     [kind |-> "BindPat",        parent |-> 6,  file |-> "F1", name |-> Some("y")],  \* 7
     [kind |-> "MacroCall",      parent |-> 3,  file |-> "F1", name |-> None],       \* 8
     [kind |-> "StructDef",      parent |-> 2,  file |-> "F1", name |-> Some("S")],  \* 9
     [kind |-> "TypeParam",      parent |-> 9,  file |-> "F1", name |-> Some("U")],  \* 10
     [kind |-> "RecordFieldDef", parent |-> 9,  file |-> "F1", name |-> Some("fld")],\* 11
     [kind |-> "Module",         parent |-> 2,  file |-> "F1", name |-> None],       \* 12
     [kind |-> "ConstDef",       parent |-> 12, file |-> "F1", name |-> Some("C")],  \* 13
     [kind |-> "EnumDef",        parent |-> 1,  file |-> "F1", name |-> Some("E")],  \* 14
     [kind |-> "EnumVariant",    parent |-> 14, file |-> "F1", name |-> Some("V")],  \* 15
     [kind |-> "TraitDef",       parent |-> 1,  file |-> "F1", name |-> Some("Tr")], \* 16
     [kind |-> "TypeAliasDef",   parent |-> 16, file |-> "F1", name |-> Some("A")],  \* 17
     [kind |-> "TypeParam",      parent |-> 17, file |-> "F1", name |-> Some("X")],  \* 18
     [kind |-> "ImplBlock",      parent |-> 1,  file |-> "F1", name |-> None],       \* 19
     [kind |-> "FnDef",          parent |-> 19, file |-> "F1", name |-> Some("meth")],\* 20
     [kind |-> "StaticDef",      parent |-> 1,  file |-> "F1", name |-> Some("ST")], \* 21
     [kind |-> "BindPat",        parent |-> 21, file |-> "F1", name |-> Some("p")],  \* 22
     [kind |-> "MacroCall",      parent |-> 1,  file |-> "F1", name |-> None],       \* 23
     [kind |-> "BindPat",        parent |-> 1,  file |-> "F1", name |-> Some("q")],  \* 24
     [kind |-> "MACRO_ITEMS",    parent |-> 0,  file |-> "M1", name |-> None],       \* 25
     [kind |-> "BindPat",        parent |-> 25, file |-> "M1", name |-> Some("z")],  \* 26
     [kind |-> "Module",         parent |-> 25, file |-> "M1", name |-> Some("c")],  \* 27
     [kind |-> "MacroCall",      parent |-> 25, file |-> "M1", name |-> None],       \* 28
     [kind |-> "MACRO_ITEMS",    parent |-> 0,  file |-> "M3", name |-> None],       \* 29
     [kind |-> "PathExpr",       parent |-> 29, file |-> "M3", name |-> None],       \* 30
     [kind |-> "MACRO_ITEMS",    parent |-> 0,  file |-> "M2", name |-> None],       \* 31
     [kind |-> "UnionDef",       parent |-> 31, file |-> "M2", name |-> Some("Un")], \* 32
     [kind |-> "RecordFieldDef", parent |-> 32, file |-> "M2", name |-> Some("ufld")]\* 33
  >>

Nodes == 1..Len(Tree)
Files == {"F1", "M1", "M2", "M3"}
KindOf(n) == Tree[n].kind
FileOf(n) == Tree[n].file
\* ast::NameOwner::name
NameOf(n) == Tree[n].name

\* HirFileId::call_node: the macro call a macro file is the expansion of.
CallNode(file) ==
  CASE file = "M1" -> Some(8)
    [] file = "M2" -> Some(23)
    [] file = "M3" -> Some(28)
    [] OTHER       -> None

\* HirFileId::original_file: the source file a (macro) file comes from.
RECURSIVE OriginalFile(_)
OriginalFile(file) ==
  IF CallNode(file) = None THEN file ELSE OriginalFile(FileOf(CallNode(file)[1]))

\* SyntaxNode::ancestors: the node itself, then its parents within its file.
RECURSIVE Ancestors(_)
Ancestors(n) ==
  IF Tree[n].parent = 0 THEN <<n>> ELSE <<n>> \o Ancestors(Tree[n].parent)

\* InFile<SyntaxNode>::ancestors_with_macros: as ancestors, but at the root of
\* a macro file the walk goes on with the macro call node at the call site.
RECURSIVE AncestorsWithMacros(_)
AncestorsWithMacros(n) ==
  IF Tree[n].parent # 0 THEN <<n>> \o AncestorsWithMacros(Tree[n].parent)
  ELSE IF CallNode(FileOf(n)) = None THEN <<n>>
  ELSE <<n>> \o AncestorsWithMacros(CallNode(FileOf(n))[1])

\* Iterator::skip(1)
Skip1(s) == IF s = <<>> THEN <<>> ELSE Tail(s)

(***************************************************************************)
(* Semantic IDs and the database.                                          *)
(***************************************************************************)
\* The only crate of the database.
Krate == 0

\* The ID type the keyed lookup yields for a syntax kind (to_id_key_impls).
IdTypeOf(kind) ==
  CASE kind = "StructDef"      -> "StructId"
    [] kind = "UnionDef"       -> "UnionId"
    [] kind = "EnumDef"        -> "EnumId"
    [] kind = "TraitDef"       -> "TraitId"
    [] kind = "FnDef"          -> "FunctionId"
    [] kind = "StaticDef"      -> "StaticId"
    [] kind = "ConstDef"       -> "ConstId"
    [] kind = "TypeAliasDef"   -> "TypeAliasId"
    [] kind = "ImplBlock"      -> "ImplId"
    [] kind = "RecordFieldDef" -> "StructFieldId"
    [] kind = "EnumVariant"    -> "EnumVariantId"
    [] kind = "TypeParam"      -> "TypeParamId"

\* The key partition of a DynMap a syntax kind is looked up under.
KeyOf(kind) ==
  CASE kind = "StructDef"      -> "STRUCT"
    [] kind = "UnionDef"       -> "UNION"
    [] kind = "EnumDef"        -> "ENUM"
    [] kind = "TraitDef"       -> "TRAIT"
    [] kind = "FnDef"          -> "FUNCTION"
    [] kind = "StaticDef"      -> "STATIC"
    [] kind = "ConstDef"       -> "CONST"
    [] kind = "TypeAliasDef"   -> "TYPE_ALIAS"
    [] kind = "ImplBlock"      -> "IMPL"
    [] kind = "RecordFieldDef" -> "RECORD_FIELD"
    [] kind = "EnumVariant"    -> "ENUM_VARIANT"
    [] kind = "TypeParam"      -> "TYPE_PARAM"

Keys ==
  {"STRUCT", "UNION", "ENUM", "TRAIT", "FUNCTION", "STATIC", "CONST",
   "TYPE_ALIAS", "IMPL", "RECORD_FIELD", "ENUM_VARIANT", "TYPE_PARAM"}

KeyedKinds ==
  {"StructDef", "UnionDef", "EnumDef", "TraitDef", "FnDef", "StaticDef",
   "ConstDef", "TypeAliasDef", "ImplBlock", "RecordFieldDef", "EnumVariant"}

\* The interned ID of the definition declared at node n.
ItemId(n) == [ty |-> IdTypeOf(KindOf(n)), loc |-> n]

ModuleId(krate, local_id) == [ty |-> "ModuleId", krate |-> krate, local_id |-> local_id]

\* ChildContainer and its impl_froms conversions.
ChildContainer(tag, id) == [tag |-> tag, id |-> id]

VARIABLES
  absent,   \* the database: the syntax nodes the definition index does not know
  sb,       \* the session: [cache, built]; built counts the child_by_source queries
  tp,       \* the fresh session the last TypeParam resolution worked in
  op,       \* the operation that has just returned ("idle": none, the caller runs)
  arg,      \* its syntax node argument (0: none)
  farg,     \* its file argument (to_module_def)
  off,      \* its offset argument (analyze)
  res       \* its result

vars == <<absent, sb, tp, op, arg, farg, off, res>>

\* The nodes a database may fail to know: the source file (untracked), modules
\* (pruned from the child table), items, a pattern and a type parameter.
Prunable == {1, 2, 3, 4, 6, 7, 27}

\* db.relevant_crates(file)
RelevantCrates(file) == IF file = "F1" THEN <<Krate>> ELSE <<>>

\* db.crate_def_map(krate).modules_for_file(file): local ids, root module first.
ModulesForFile(krate, file) ==
  IF krate = Krate /\ file = "F1" /\ 1 \notin absent THEN <<0>> ELSE <<>>

\* The module declaration a non-root local module id was collected from.
ModuleDeclNode(local_id) == IF local_id = 2 THEN 2 ELSE 27

\* db.crate_def_map(krate)[local_id].children: name -> local id.
ModuleChildren(krate, local_id) ==
  LET all == CASE local_id = 0 -> {<<"a", 2>>}
               [] local_id = 2 -> {<<"c", 1>>}
               [] OTHER        -> {}
      kept == {e \in all : ModuleDeclNode(e[2]) \notin absent}
  IN [nm \in {e[1] : e \in kept} |-> (CHOOSE e \in kept : e[1] = nm)[2]]

\* The syntax nodes of the children a container (facet) owns, as hir_def
\* collects them: a module's items (those of item-position expansions too), a
\* body's inner items, a trait's and an impl's items, an enum's variants, a
\* struct's or union's fields, a generic definition's type parameters.
ChildNodes(container) ==
  LET id == container.id
  IN CASE container.tag = "ModuleId" /\ id.local_id = 0 -> {14, 16, 19, 21, 32}
       [] container.tag = "ModuleId" /\ id.local_id = 2 -> {3, 9}
       [] container.tag = "ModuleId" /\ id.local_id = 1 -> {}
       [] container.tag = "DefWithBodyId" /\ id.loc = 3 -> {6}
       [] container.tag = "VariantId" /\ id.loc = 9     -> {11}
       [] container.tag = "VariantId" /\ id.loc = 32    -> {33}
       [] container.tag = "EnumId" /\ id.loc = 14       -> {15}
       [] container.tag = "TraitId" /\ id.loc = 16      -> {17}
       [] container.tag = "ImplId" /\ id.loc = 19       -> {20}
       [] container.tag = "GenericDefId" /\ id.loc = 3  -> {4}
       [] container.tag = "GenericDefId" /\ id.loc = 9  -> {10}
       [] container.tag = "GenericDefId" /\ id.loc = 17 -> {18}
       [] OTHER                                         -> {}

\* hir_def's ChildBySource::child_by_source(db) for a container: a DynMap, from
\* (key, source location) to the ID of each child the index knows.
DbChildBySource(container) ==
  [e \in {<<KeyOf(KindOf(m)), m>> : m \in ChildNodes(container) \ absent}
     |-> ItemId(e[2])]

\* dyn_map[key].get(&src).copied()
DynMapGet(dyn_map, key, src) ==
  IF <<key, src>> \in DOMAIN dyn_map THEN Some(dyn_map[<<key, src>>]) ELSE None

\* The body whose source map records the pattern at node n.
BodyOfPat(n) ==
  CASE n \in {5, 26} -> Some(ItemId(3))
    [] n = 7         -> Some(ItemId(6))
    [] n = 22        -> Some(ItemId(21))
    [] OTHER         -> None

\* db.body_with_source_map(parent).1.node_pat(src)
NodePat(parent, n) ==
  IF BodyOfPat(n) = Some(parent) /\ n \notin absent
  THEN Some([body |-> parent.loc, idx |-> IF n = 26 THEN 1 ELSE 0])
  ELSE None

\* db.ast_id_map(file).ast_id(node): the node's position among its file's nodes.
AstIdOf(n) == Cardinality({m \in Nodes : FileOf(m) = FileOf(n) /\ m < n})

(***************************************************************************)
(* The session.                                                            *)
(***************************************************************************)
\* SourceBinder::new
NewSession == [cache |-> <<>>, built |-> <<>>]

\* One more child_by_source query of the database for container c.
Bump(built, c) ==
  IF c \in DOMAIN built THEN [built EXCEPT ![c] = @ + 1] ELSE built @@ (c :> 1)

\* ToIdEntry with the occupied entry overwritten: the index is built and
\* inserted on every request.
ToIdEntryAlwaysBuild(s, container) ==
  [cache |-> [c \in DOMAIN s.cache \cup {container} |->
                IF c = container THEN DbChildBySource(c) ELSE s.cache[c]],
   built |-> Bump(s.built, container)]

\* ToIdEntry with containers hashed and compared by their variant alone: a
\* container of a variant the cache holds gets that entry's index.
ToIdEntryByTag(s, container) ==
  IF container \in DOMAIN s.cache THEN s
  ELSE IF \E c \in DOMAIN s.cache : c.tag = container.tag
       THEN [cache |-> s.cache @@
                       (container :>
                          s.cache[CHOOSE c \in DOMAIN s.cache : c.tag = container.tag]),
             built |-> s.built]
       ELSE [cache |-> s.cache @@ (container :> DbChildBySource(container)),
             built |-> Bump(s.built, container)]

\* child_by_source_cache.entry(container).or_insert_with(..) in to_id
ToIdEntry(s, container) ==
  IF container \in DOMAIN s.cache THEN s
  ELSE [cache |-> s.cache @@ (container :> DbChildBySource(container)),
        built |-> Bump(s.built, container)]

\* SourceBinder::child_by_source
ChildBySource(s, container) ==
  IF container \in DOMAIN s.cache THEN s
  ELSE [cache |-> s.cache @@ (container :> DbChildBySource(container)),
        built |-> Bump(s.built, container)]

\* SourceBinder::to_module_def
ToModuleDef(file) ==
  LET found == SelectSeq(RelevantCrates(file),
                         LAMBDA crate_id : ModulesForFile(crate_id, file) # <<>>)
  IN IF found = <<>> THEN None
     ELSE Some([id |-> ModuleId(found[1], ModulesForFile(found[1], file)[1])])

ContainerKinds ==
  {"TraitDef", "ImplBlock", "FnDef", "StaticDef", "ConstDef", "EnumDef",
   "StructDef", "UnionDef", "Module"}

\* Facet with the ADT arms converted into the generic-parameter facet.
FacetGeneric(kind, def) ==
  CASE kind = "TraitDef"  -> ChildContainer("TraitId", def)
    [] kind = "ImplBlock" -> ChildContainer("ImplId", def)
    [] kind \in {"FnDef", "StaticDef", "ConstDef"}
                          -> ChildContainer("DefWithBodyId", def)
    [] kind \in {"EnumDef", "StructDef", "UnionDef"}
                          -> ChildContainer("GenericDefId", def)
    [] kind = "Module"    -> ChildContainer("ModuleId", def)

\* The match arms of find_container: the ChildContainer an ancestor's ID becomes.
Facet(kind, def) ==
  CASE kind = "TraitDef"  -> ChildContainer("TraitId", def)
    [] kind = "ImplBlock" -> ChildContainer("ImplId", def)
    [] kind \in {"FnDef", "StaticDef", "ConstDef"}
                          -> ChildContainer("DefWithBodyId", def)
    [] kind = "EnumDef"   -> ChildContainer("EnumId", def)
    [] kind \in {"StructDef", "UnionDef"}
                          -> ChildContainer("VariantId", def)
    [] kind = "Module"    -> ChildContainer("ModuleId", def)

\* ContainerAncestors walked from the outermost ancestor inwards.
ContainerAncestorsOutermostFirst(src) ==
  LET ancs == Skip1(AncestorsWithMacros(src))
  IN [i \in 1..Len(ancs) |-> ancs[Len(ancs) + 1 - i]]

\* ContainerAncestors with the plain ancestors(): the walk ends at the root of
\* a macro file.
ContainerAncestorsInFile(src) == Skip1(Ancestors(src))

\* The ancestors find_container walks.
ContainerAncestors(src) == Skip1(AncestorsWithMacros(src))

\* FallbackModule of the node's own file id, original_file left out.
FallbackModuleOfFileId(src) == ToModuleDef(FileOf(src))

\* The file whose root module find_container falls back to.
FallbackModule(src) == ToModuleDef(OriginalFile(FileOf(src)))

\* The first module declaration among the strict ancestors (ast::Module::to_id).
ParentDeclaration(src) ==
  LET mods == SelectSeq(Skip1(AncestorsWithMacros(src)),
                        LAMBDA it : KindOf(it) = "Module")
  IN IF mods = <<>> THEN None ELSE Some(mods[1])

\* ModuleChild looked up in the table of the crate's root module.
ModuleChildOfRoot(parent_module, child_name) ==
  LET children == ModuleChildren(parent_module.krate, 0)
  IN IF child_name \in DOMAIN children
     THEN Some(ModuleId(parent_module.krate, children[child_name]))
     ELSE None

\* The child named child_name of parent_module, from the crate's def map.
ModuleChild(parent_module, child_name) ==
  LET children == ModuleChildren(parent_module.krate, parent_module.local_id)
  IN IF child_name \in DOMAIN children
     THEN Some(ModuleId(parent_module.krate, children[child_name]))
     ELSE None

\* The lookup that ends ast::Module::to_id, given the parent module's resolution.
ModuleLookup(parent_module, src) ==
  IF parent_module.res = None THEN parent_module
  ELSE IF NameOf(src) = None THEN [sb |-> parent_module.sb, res |-> None]
  ELSE [sb |-> parent_module.sb,
        res |-> ModuleChild(parent_module.res[1], NameOf(src)[1])]

\* The None arm of parent_module: the root module of the original file.
FileModule(s, src) ==
  LET m == ToModuleDef(OriginalFile(FileOf(src)))
  IN [sb |-> s, res |-> IF IsSome(m) THEN Some(m[1].id) ELSE None]

\* The lookup that ends the keyed to_id, given find_container's outcome fc.
KeyedLookup(fc, src) ==
  IF fc.res = None THEN fc
  ELSE LET container == fc.res[1]
           s2 == ToIdEntry(fc.sb, container)
       IN [sb |-> s2,
           res |-> DynMapGet(s2.cache[container], KeyOf(KindOf(src)), src)]

\* A match arm of find_container, given the ancestor's to_id outcome def.
ArmResult(def, kind) ==
  [sb |-> def.sb,
   res |-> IF def.res = None THEN None ELSE Some(Facet(kind, def.res[1]))]

\* The end of find_container when no ancestor is a container.
Fallback(s, src) ==
  LET c == FallbackModule(src)
  IN [sb |-> s,
      res |-> IF c = None THEN None ELSE Some(ChildContainer("ModuleId", c[1].id))]

RECURSIVE ToId(_, _), FindContainerLoop(_, _, _)

\* impl ToId for ast::Module
ModuleToId(s, src) ==
  ModuleLookup(IF IsSome(ParentDeclaration(src))
               THEN ToId(s, ParentDeclaration(src)[1])
               ELSE FileModule(s, src),
               src)

\* SourceBinder::find_container
FindContainer(s, src) == FindContainerLoop(s, src, ContainerAncestors(src))

\* impl<T: ToIdByKey> ToId for T
ToIdByKey(s, src) == KeyedLookup(FindContainer(s, src), src)

\* impl ToId for ast::MacroCall
MacroCallToId(s, src) ==
  LET m == ToModuleDef(OriginalFile(FileOf(src)))
  IN IF m = None THEN [sb |-> s, res |-> None]
     ELSE [sb |-> s,
           res |-> Some([ty |-> "MacroDefId",
                         krate |-> Some(m[1].id.krate),
                         ast_id |-> Some(<<FileOf(src), AstIdOf(src)>>),
                         kind |-> "Declarative"])]

\* SourceBinder::to_id, by the node's syntax kind
ToId(s, src) ==
  CASE KindOf(src) = "Module"    -> ModuleToId(s, src)
    [] KindOf(src) = "MacroCall" -> MacroCallToId(s, src)
    [] OTHER                     -> ToIdByKey(s, src)

\* The loop of find_container over the remaining ancestors.
FindContainerLoop(s, src, ancs) ==
  IF ancs = <<>> THEN Fallback(s, src)
  ELSE IF KindOf(Head(ancs)) \in ContainerKinds
       THEN ArmResult(ToId(s, Head(ancs)), KindOf(Head(ancs)))
       ELSE FindContainerLoop(s, src, Tail(ancs))

\* The hir wrapper a to_def_impls kind's ID is converted into (Into::into).
DefOf(kind, id) ==
  [def |-> CASE kind = "Module"         -> "Module"
             [] kind = "StructDef"      -> "Struct"
             [] kind = "EnumDef"        -> "Enum"
             [] kind = "UnionDef"       -> "Union"
             [] kind = "TraitDef"       -> "Trait"
             [] kind = "ImplBlock"      -> "ImplBlock"
             [] kind = "TypeAliasDef"   -> "TypeAlias"
             [] kind = "ConstDef"       -> "Const"
             [] kind = "StaticDef"      -> "Static"
             [] kind = "FnDef"          -> "Function"
             [] kind = "RecordFieldDef" -> "StructField"
             [] kind = "EnumVariant"    -> "EnumVariant"
             [] kind = "MacroCall"      -> "MacroDef",
   id |-> id]

ToDefImplKinds == KeyedKinds \cup {"Module", "MacroCall"}

\* to_def_impls!: sb.to_id(src).map(Into::into)
IntoDef(r, kind) ==
  [sb |-> r.sb, res |-> IF r.res = None THEN None ELSE Some(DefOf(kind, r.res[1]))]

ToDefById(s, src) == IntoDef(ToId(s, src), KindOf(src))

\* LexicalAncestors crossing macro call sites.
LexicalAncestorsWithMacros(src) == AncestorsWithMacros(src)

\* The ancestors the BindPat and TypeParam resolutions walk.
LexicalAncestors(src) == Ancestors(src)

BodyKinds == {"ConstDef", "StaticDef", "FnDef"}

\* One step of find_map: r is to_id's outcome for the ancestor; an ancestor
\* that does not resolve is passed over and the walk goes on (rest).
FindMapStep(r, rest) == IF IsSome(r.res) THEN r ELSE rest

\* find_map over the ancestors: the first one of a kind in `kinds` that to_id
\* resolves.
RECURSIVE FindMapToId(_, _, _)
FindMapToId(s, ancs, kinds) ==
  IF ancs = <<>> THEN [sb |-> s, res |-> None]
  ELSE IF KindOf(Head(ancs)) \in kinds
       THEN FindMapStep(ToId(s, Head(ancs)),
                        FindMapToId(ToId(s, Head(ancs)).sb, Tail(ancs), kinds))
       ELSE FindMapToId(s, Tail(ancs), kinds)

\* The end of BindPat's to_def, given the find_map outcome parent.
LocalOf(parent, src) ==
  IF parent.res = None THEN parent
  ELSE LET pat_id == NodePat(parent.res[1], src)
       IN [sb |-> parent.sb,
           res |-> IF pat_id = None THEN None
                   ELSE Some([parent |-> parent.res[1], pat_id |-> pat_id[1]])]

\* impl ToDef for ast::BindPat
ToDefBindPat(s, src) ==
  LocalOf(FindMapToId(s, LexicalAncestors(src), BodyKinds), src)

GenericKinds ==
  {"FnDef", "StructDef", "EnumDef", "TraitDef", "TypeAliasDef", "ImplBlock"}

\* The end of TypeParam's to_def, given the find_map outcome parent of the
\* shadowing session: `inner` is that session when the call ends.
TypeParamOf(parent, src) ==
  IF parent.res = None THEN [inner |-> parent.sb, res |-> None]
  ELSE LET container == ChildContainer("GenericDefId", parent.res[1])
           inner == ChildBySource(parent.sb, container)
           id == DynMapGet(inner.cache[container], "TYPE_PARAM", src)
       IN [inner |-> inner,
           res |-> IF id = None THEN None ELSE Some([id |-> id[1]])]

\* The caller's session and the result when the shadowing session r is dropped.
DropInner(s, r) == [sb |-> s, inner |-> r.inner, res |-> r.res]

\* ToDefTypeParam without the shadowing session: the lookups run in, and fill,
\* the caller's session.
ToDefTypeParamShared(s, src) ==
  LET r == TypeParamOf(FindMapToId(s, LexicalAncestors(src), GenericKinds), src)
  IN [sb |-> r.inner, inner |-> r.inner, res |-> r.res]

\* impl ToDef for ast::TypeParam: let mut sb = SourceBinder::new(sb.db) shadows
\* the caller's session s for the whole resolution.
ToDefTypeParam(s, src) ==
  DropInner(s, TypeParamOf(FindMapToId(NewSession, LexicalAncestors(src), GenericKinds),
                           src))

\* SourceAnalyzer::new_for_resolver / new_for_body, as what they are built from.
NewForResolver(resolver, src) == [analyzer |-> "resolver", resolver |-> resolver, src |-> src]
NewForBody(def, src, offset) ==
  [analyzer |-> "body", def |-> def, src |-> src, offset |-> offset]

\* Resolver::default() and HasResolver::resolver(db)
DefaultResolver == [scopes |-> None]
ResolverOf(container) == [scopes |-> Some(container)]

\* AnalyzerFor with the offset dropped on the way to the body analyzer.
AnalyzerForNoOffset(fc, src, offset) ==
  [sb |-> fc.sb,
   res |-> IF fc.res = None THEN NewForResolver(DefaultResolver, src)
           ELSE IF fc.res[1].tag = "DefWithBodyId"
                THEN NewForBody(fc.res[1].id, src, None)
                ELSE NewForResolver(ResolverOf(fc.res[1]), src)]

\* The dispatch of analyze on find_container's outcome fc.
AnalyzerFor(fc, src, offset) ==
  [sb |-> fc.sb,
   res |-> IF fc.res = None THEN NewForResolver(DefaultResolver, src)
           ELSE IF fc.res[1].tag = "DefWithBodyId"
                THEN NewForBody(fc.res[1].id, src, offset)
                ELSE NewForResolver(ResolverOf(fc.res[1]), src)]

\* SourceBinder::analyze
Analyze(s, src, offset) == AnalyzerFor(FindContainer(s, src), src, offset)

(***************************************************************************)
(* The state machine: one database, one session, any sequence of calls.    *)
(***************************************************************************)
\* Option<TextUnit> arguments of analyze
Offsets == {None, Some(4)}

\* FileId arguments of to_module_def (F2 belongs to no crate)
SourceFiles == {"F1", "F2"}

Init ==
  /\ absent \in {a \in SUBSET Prunable : Cardinality(a) <= MaxAbsent}
  /\ sb = NewSession
  /\ tp = NewSession
  /\ op = "idle"
  /\ arg = 0
  /\ farg = ""
  /\ off = None
  /\ res = None

CallToDef(n) ==
  /\ op = "idle"
  /\ KindOf(n) \in ToDefImplKinds
  /\ LET r == ToDefById(sb, n)
     IN /\ sb' = r.sb
        /\ res' = r.res
  /\ op' = "to_def"
  /\ arg' = n
  /\ tp' = NewSession
  /\ UNCHANGED <<absent, off>>
  /\ farg' = ""

CallToDefBindPat(n) ==
  /\ op = "idle"
  /\ KindOf(n) = "BindPat"
  /\ LET r == ToDefBindPat(sb, n)
     IN /\ sb' = r.sb
        /\ res' = r.res
  /\ op' = "to_def_bind_pat"
  /\ arg' = n
  /\ tp' = NewSession
  /\ UNCHANGED <<absent, off>>
  /\ farg' = ""

CallToDefTypeParam(n) ==
  /\ op = "idle"
  /\ KindOf(n) = "TypeParam"
  /\ LET r == ToDefTypeParam(sb, n)
     IN /\ sb' = r.sb
        /\ tp' = r.inner
        /\ res' = r.res
  /\ op' = "to_def_type_param"
  /\ arg' = n
  /\ UNCHANGED <<absent, off>>
  /\ farg' = ""

CallAnalyze(n, offset) ==
  /\ op = "idle"
  /\ LET r == Analyze(sb, n, offset)
     IN /\ sb' = r.sb
        /\ res' = r.res
  /\ op' = "analyze"
  /\ arg' = n
  /\ off' = offset
  /\ tp' = NewSession
  /\ farg' = ""
  /\ UNCHANGED absent

CallFindContainer(n) ==
  /\ op = "idle"
  /\ LET r == FindContainer(sb, n)
     IN /\ sb' = r.sb
        /\ res' = r.res
  /\ op' = "find_container"
  /\ arg' = n
  /\ tp' = NewSession
  /\ UNCHANGED <<absent, off>>
  /\ farg' = ""

CallToModuleDef(file) ==
  /\ op = "idle"
  /\ res' = ToModuleDef(file)
  /\ op' = "to_module_def"
  /\ arg' = 0
  /\ farg' = file
  /\ tp' = NewSession
  /\ UNCHANGED <<absent, sb, off>>

\* The caller takes the result; the session waits for its next call.
Return ==
  /\ op # "idle"
  /\ op' = "idle"
  /\ arg' = 0
  /\ farg' = ""
  /\ off' = None
  /\ res' = None
  /\ tp' = NewSession
  /\ UNCHANGED <<absent, sb>>

Next ==
  \/ \E n \in Nodes : CallToDef(n)
  \/ \E n \in Nodes : CallToDefBindPat(n)
  \/ \E n \in Nodes : CallToDefTypeParam(n)
  \/ \E n \in Nodes, offset \in Offsets : CallAnalyze(n, offset)
  \/ \E n \in Nodes : CallFindContainer(n)
  \/ \E file \in SourceFiles : CallToModuleDef(file)
  \/ Return

Spec == Init /\ [][Next]_vars

(***************************************************************************)
(* Vocabulary of the properties, stated on the syntax and the database     *)
(* alone.                                                                  *)
(***************************************************************************)
Range(seq) == {seq[i] : i \in DOMAIN seq}

\* The strict ancestors of n, macro call sites included / within n's file only.
StrictAncestors(n) == Range(Skip1(AncestorsWithMacros(n)))
StrictFileAncestors(n) == Range(Skip1(Ancestors(n)))

\* The members of `among` of a kind in `kinds` / the innermost of them: the one
\* every other one is an ancestor of.
OfKinds(among, kinds) == {a \in among : KindOf(a) \in kinds}
Innermost(cands) ==
  CHOOSE a \in cands : \A b \in cands \ {a} : b \in StrictAncestors(a)

\* The local id the crate's def map gives the module declared at node m
\* (-1: the def map has no module for it).
LocalIdOfDecl(m) ==
  IF \E l \in {1, 2} : ModuleDeclNode(l) = m
  THEN CHOOSE l \in {1, 2} : ModuleDeclNode(l) = m
  ELSE -1

RootContainer == ChildContainer("ModuleId", ModuleId(Krate, 0))

\* The facet a container-defining kind is classified under.
TagOfKind(kind) ==
  CASE kind = "Module"                           -> "ModuleId"
    [] kind = "TraitDef"                         -> "TraitId"
    [] kind = "ImplBlock"                        -> "ImplId"
    [] kind = "EnumDef"                          -> "EnumId"
    [] kind \in {"StructDef", "UnionDef"}        -> "VariantId"
    [] kind \in {"FnDef", "StaticDef", "ConstDef"} -> "DefWithBodyId"

\* The container the definition at container-kind node a is, when it is one.
ContainerOfNode(a) ==
  IF KindOf(a) = "Module"
  THEN ChildContainer("ModuleId", ModuleId(Krate, LocalIdOfDecl(a)))
  ELSE ChildContainer(TagOfKind(KindOf(a)), ItemId(a))

\* The node's original file belongs to a module.
FileHasModule(n) == IsSome(ToModuleDef(OriginalFile(FileOf(n))))

ModA == ChildContainer("ModuleId", ModuleId(Krate, 2))
BodyF == ChildContainer("DefWithBodyId", ItemId(3))
BodyG == ChildContainer("DefWithBodyId", ItemId(6))
VariantS == ChildContainer("VariantId", ItemId(9))

\* In a session: every cached container was built by exactly one database
\* query, and nothing else was queried.
BuiltOnce(s) ==
  /\ DOMAIN s.built = DOMAIN s.cache
  /\ \A c \in DOMAIN s.built : s.built[c] = 1

\* C1: within one session (the caller's, and likewise the fresh one a TypeParam
\* resolution works in) the database's child_by_source is queried at most once
\* per ChildContainer, and a cached index is never rebuilt, replaced or removed:
\* every later step finds it with the content it was built with.
C1_BuiltAtMostOnce ==
  /\ [](BuiltOnce(sb) /\ BuiltOnce(tp))
  /\ [][\A c \in DOMAIN sb.cache :
          /\ c \in DOMAIN sb'.cache
          /\ sb'.cache[c] = sb.cache[c]
          /\ sb'.built[c] = sb.built[c]]_vars

\* C1's case: f is resolved through module a's index, which an earlier
\* resolution of S's field had already built (and which was built once).
C1_Witness ==
  /\ op = "to_def" /\ arg = 3 /\ IsSome(res)
  /\ VariantS \in DOMAIN sb.cache
  /\ sb.built[ModA] = 1

\* C2: find_container is innermost-wins: with container-kind strict ancestors a
\* successful result is the container of the innermost of them, never an outer
\* one's; with none it is the root module of the node's original file (absence
\* when that file has no module).
C2_InnermostWins ==
  op = "find_container" =>
    LET cands == OfKinds(StrictAncestors(arg), ContainerKinds)
    IN IF cands # {}
       THEN res = None \/ res = Some(ContainerOfNode(Innermost(cands)))
       ELSE res = IF FileHasModule(arg) THEN Some(RootContainer) ELSE None

\* C2's case: y sits in fn g, inside fn f, inside mod a: the result is g's body.
C2_Witness == op = "find_container" /\ arg = 7 /\ res = Some(BodyG)

\* C3 as claimed: whenever the node's original file has a module,
\* find_container returns Some.
C3_NoneOnlyWithoutModule ==
  (op = "find_container" /\ FileHasModule(arg)) => IsSome(res)

\* C3 amended: find_container returns None exactly when the innermost
\* container-kind strict ancestor does not resolve to an ID (to_id yields
\* absence), or when there is no such ancestor and the node's original file has
\* no module.
C3_NoneIffUnresolved ==
  op = "find_container" =>
    LET cands == OfKinds(StrictAncestors(arg), ContainerKinds)
    IN (res = None) <=>
         IF cands # {} THEN ToId(NewSession, Innermost(cands)).res = None
         ELSE ~FileHasModule(arg)

\* C3's case: the file has a module, yet the node's innermost container does
\* not resolve and find_container yields absence.
C3_Witness ==
  /\ op = "find_container" /\ res = None /\ FileHasModule(arg)
  /\ OfKinds(StrictAncestors(arg), ContainerKinds) # {}

\* The parent a module declaration m is looked up in: what the nearest strict
\* module-declaration ancestor resolves to in session s, or the root module of
\* the original file when there is no such ancestor.
ParentOfModule(s, m) ==
  LET mods == OfKinds(StrictAncestors(m), {"Module"})
  IN IF mods # {} THEN ToId(s, Innermost(mods)).res
     ELSE IF FileHasModule(m) THEN Some(ModuleId(Krate, 0)) ELSE None

\* C4: a module declaration named N resolves to ModuleId {krate: P.krate,
\* local_id: the id stored for N in P's child table}, P being what its nearest
\* strict module-declaration ancestor (or else the file's root module) resolves
\* to; without a name, without N in P's table, or without P, it is absent.
C4_ModuleViaParentTable ==
  (op = "to_def" /\ KindOf(arg) = "Module") =>
    LET P == ParentOfModule(sb, arg)
        N == NameOf(arg)
    IN IF /\ IsSome(P)
          /\ IsSome(N)
          /\ N[1] \in DOMAIN ModuleChildren(P[1].krate, P[1].local_id)
       THEN res = Some(DefOf("Module",
                   ModuleId(P[1].krate,
                            ModuleChildren(P[1].krate, P[1].local_id)[N[1]])))
       ELSE res = None

\* C4's case: mod c, declared in a macro expansion inside mod a, resolves to
\* the id a's child table stores for "c".
C4_Witness ==
  /\ op = "to_def" /\ arg = 27
  /\ res = Some(DefOf("Module", ModuleId(Krate, 1)))
  /\ ParentOfModule(sb, 27) = Some(ModuleId(Krate, 2))

\* C5: analyze always yields an analyzer, chosen by the enclosing container: a
\* body-scoped one of the definition and the caller's offset for a body-owning
\* container, a resolver-based one of the container's resolver (the offset plays
\* no part) for any other, one over the default resolver for none.
C5_AnalyzeDispatch ==
  op = "analyze" =>
    LET c == FindContainer(NewSession, arg).res
    IN IF c = None THEN res = NewForResolver(DefaultResolver, arg)
       ELSE IF c[1].tag = "DefWithBodyId"
            THEN res = NewForBody(c[1].id, arg, off)
            ELSE res = NewForResolver(ResolverOf(c[1]), arg)

\* C5's case: a position inside fn f with an offset gets f's body analyzer.
C5_Witness ==
  /\ op = "analyze" /\ arg = 5 /\ off = Some(4)
  /\ res = NewForBody(ItemId(3), 5, Some(4))

\* C6: a BindPat resolves to absence or to a Local of the nearest enclosing
\* const/static/fn ancestor (within its file) and that body's source-map entry
\* for the pattern; it is absent when there is no such ancestor, when the
\* nearest one does not resolve, and when its source map has no entry.
C6_LocalOfNearestBody ==
  op = "to_def_bind_pat" =>
    LET bodies == OfKinds(Range(Ancestors(arg)), BodyKinds)
        parent == IF bodies = {} THEN None
                  ELSE ToId(NewSession, Innermost(bodies)).res
    IN IF IsSome(parent) /\ IsSome(NodePat(parent[1], arg))
       THEN res = Some([parent |-> ItemId(Innermost(bodies)),
                        pat_id |-> NodePat(parent[1], arg)[1]])
       ELSE res = None

\* C6's case: y, in fn g nested in fn f, is a Local of g.
C6_Witness ==
  /\ op = "to_def_bind_pat" /\ arg = 7
  /\ IsSome(res) /\ res[1].parent = ItemId(6)

\* C7: a TypeParam resolution leaves the caller's session exactly as it was,
\* does all its lookups in a fresh session of its own (each container it meets
\* is queried there, cached by the caller or not), and yields what it yields
\* for a caller with an empty cache.
C7_TypeParamIsolated ==
  [][op' = "to_def_type_param" =>
       /\ sb' = sb
       /\ BuiltOnce(tp')
       /\ res' = ToDefTypeParam(NewSession, arg').res
       /\ tp' = ToDefTypeParam(NewSession, arg').inner]_vars

\* C7's case: T of fn f resolves while the caller's cache holds module a's
\* index; the fresh session queried module a again and the caller's cache got
\* no generic-parameter entry.
C7_Witness ==
  /\ op = "to_def_type_param" /\ arg = 4 /\ IsSome(res)
  /\ ModA \in DOMAIN sb.cache
  /\ ModA \in DOMAIN tp.built
  /\ ChildContainer("GenericDefId", ItemId(3)) \in DOMAIN tp.cache
  /\ ChildContainer("GenericDefId", ItemId(3)) \notin DOMAIN sb.cache

\* C8: find_container classifies by the innermost container-kind ancestor
\* (struct/union: VariantId, enum: EnumId, fn/static/const: DefWithBodyId,
\* trait, impl, module: their own; no such ancestor: ModuleId), never as
\* GenericDefId, and the session's cache never holds a GenericDefId key.
C8_NoGenericFacet ==
  /\ \A c \in DOMAIN sb.cache : c.tag # "GenericDefId"
  /\ (op = "find_container" /\ IsSome(res)) =>
       LET cands == OfKinds(StrictAncestors(arg), ContainerKinds)
       IN res[1].tag = IF cands = {} THEN "ModuleId"
                       ELSE TagOfKind(KindOf(Innermost(cands)))

\* C8's case: the variant of enum E is found in the EnumId facet, after which
\* the cache holds keys (none of them GenericDefId).
C8_Witness ==
  /\ op = "find_container" /\ arg = 15
  /\ res = Some(ChildContainer("EnumId", ItemId(14)))
  /\ DOMAIN sb.cache # {}

\* C9: a node of a macro expansion with no container-kind ancestor inside the
\* expansion has the container of the macro call node at the call site (so
\* through nested expansions, and down to the root module of the original file).
C9_MacroTransparent ==
  (/\ op = "find_container"
   /\ IsSome(CallNode(FileOf(arg)))
   /\ OfKinds(StrictFileAncestors(arg), ContainerKinds) = {}) =>
    res = FindContainer(NewSession, CallNode(FileOf(arg))[1]).res

\* C9's case: the expression two expansions deep inside fn f is in f's body.
C9_Witness == op = "find_container" /\ arg = 30 /\ res = Some(BodyF)

\* The operation `o` run in session s.
Run(s, o, n, file, offset) ==
  CASE o = "to_def"            -> ToDefById(s, n).res
    [] o = "to_def_bind_pat"   -> ToDefBindPat(s, n).res
    [] o = "to_def_type_param" -> ToDefTypeParam(s, n).res
    [] o = "analyze"           -> Analyze(s, n, offset).res
    [] o = "find_container"    -> FindContainer(s, n).res
    [] o = "to_module_def"     -> ToModuleDef(file)

\* C10: memoization is transparent: whatever the session served before, a
\* call's result is the one a freshly created session gives, and every cached
\* index equals what the database's child_by_source returns for its key.
C10_MemoTransparent ==
  /\ op # "idle" => res = Run(NewSession, op, arg, farg, off)
  /\ \A c \in DOMAIN sb.cache : sb.cache[c] = DbChildBySource(c)
  /\ \A c \in DOMAIN tp.cache : tp.cache[c] = DbChildBySource(c)

\* C10's case: g resolves through indexes of module a and f's body in a session
\* that had served other queries (struct S's field) before.
C10_Witness ==
  /\ op = "to_def" /\ arg = 6 /\ IsSome(res)
  /\ VariantS \in DOMAIN sb.cache
  /\ BodyF \in DOMAIN sb.cache

====
